---- MODULE Spec2Model ----
(***************************************************************************)
(* phys2d: the generic two-dimensional vector Vec2D<T> (src/src/vec2d.rs)  *)
(* and the free function sane_mod (src/src/lib.rs).                        *)
(*                                                                         *)
(* The library is a set of pure functions.  A caller picks arguments and   *)
(* calls one of them; the call and its outcome are the state.  An integer  *)
(* Scalar is a signed two's-complement integer of Width bits; a floating   *)
(* Scalar is a finite integer-valued number or NaN.  An outcome is either  *)
(* a value or a panic (a record with a "panic" field).                     *)
(***************************************************************************)
EXTENDS Integers

\* overflow_checks: whether the build checks integer overflow (a debug build
\*                  panics on it, a release build wraps)
\* call:            the function being called and its arguments
\* result:          the call's outcome, a value or a panic
VARIABLES overflow_checks, call, result

vars == <<overflow_checks, call, result>>

(***************************************************************************)
(* Bounds.                                                                 *)
(***************************************************************************)
\* bits of the signed integer Scalar the vector is instantiated with
Width == 3
\* floating components compared by the derived ordering: -OrdMax..OrdMax, NaN
OrdMax == 2
\* sane_mod's arguments: the integer-valued floats -ModMax..ModMax, and NaN
ModMax == 8

(***************************************************************************)
(* The integer Scalar: T = iWidth.                                         *)
(***************************************************************************)
MinVal == -(2 ^ (Width - 1))
MaxVal == (2 ^ (Width - 1)) - 1
Scalars == MinVal..MaxVal
InRange(n) == MinVal <= n /\ n <= MaxVal
\* two's-complement wrap-around of a mathematical integer into Width bits
Wrap(n) == ((n - MinVal) % (2 ^ Width)) + MinVal
Abs(n) == IF n < 0 THEN -n ELSE n

Panic(msg) == [panic |-> msg]
IsPanic(o) == "panic" \in DOMAIN o
Val(n) == [val |-> n]

\* The native result of an integer operation whose mathematical result is n:
\* n when representable; otherwise a panic when the build checks overflow
\* (debug-assertions) and the wrapped value when it does not (release).
Overflowing(n, msg) ==
    IF InRange(n) THEN Val(n)
    ELSE IF overflow_checks THEN Panic(msg) ELSE Val(Wrap(n))

ScalarAdd(x, y) == Overflowing(x + y, "attempt to add with overflow")
ScalarSub(x, y) == Overflowing(x - y, "attempt to subtract with overflow")
ScalarMul(x, y) == Overflowing(x * y, "attempt to multiply with overflow")
ScalarNeg(x) == Overflowing(-x, "attempt to negate with overflow")

\* the quotient rounded toward zero
TruncQuot(x, y) ==
    LET q == Abs(x) \div Abs(y)
    IN  IF (x < 0) = (y < 0) THEN q ELSE -q

\* the quotient rounded toward minus infinity
FloorQuot(x, y) == IF y > 0 THEN x \div y ELSE (-x) \div (-y)

ScalarDiv_floor(x, y) ==
    IF y = 0 THEN Panic("attempt to divide by zero")
    ELSE IF x = MinVal /\ y = -1 THEN Panic("attempt to divide with overflow")
    ELSE Val(FloorQuot(x, y))

\* Integer division panics on a zero divisor and on MIN / -1 in every build.
ScalarDiv(x, y) ==
    IF y = 0 THEN Panic("attempt to divide by zero")
    ELSE IF x = MinVal /\ y = -1 THEN Panic("attempt to divide with overflow")
    ELSE Val(TruncQuot(x, y))

(***************************************************************************)
(* Vec2D<T>, T an integer Scalar.                                          *)
(***************************************************************************)
new_swapped(x, y) == [x |-> y, y |-> x]

new(x, y) == [x |-> x, y |-> y]

Vecs == {new(x, y) : x \in Scalars, y \in Scalars}
Zero == new(0, 0)

\* Vec2D::new(ex, ey): the argument expressions are evaluated left to right
\* and the first panic unwinds the call.
new_of(ox, oy) ==
    IF IsPanic(ox) THEN ox
    ELSE IF IsPanic(oy) THEN oy
    ELSE new(ox.val, oy.val)

add(self, rhs) == new_of(ScalarAdd(self.x, rhs.x), ScalarAdd(self.y, rhs.y))

sub(self, rhs) == new_of(ScalarSub(self.x, rhs.x), ScalarSub(self.y, rhs.y))

mul_typo(self, rhs) == new_of(ScalarMul(self.x, rhs), ScalarMul(self.y, self.x))

mul(self, rhs) == new_of(ScalarMul(self.x, rhs), ScalarMul(self.y, rhs))

div(self, rhs) == new_of(ScalarDiv(self.x, rhs), ScalarDiv(self.y, rhs))

neg_x_only(self) == new_of(ScalarNeg(self.x), Val(self.y))

neg(self) == new_of(ScalarNeg(self.x), ScalarNeg(self.y))

\* An in-place operator: self.x op= rhs; self.y op= rhs.  A panic in the
\* second statement leaves the first assignment done.
InPlace(self, ox, oy) ==
    IF IsPanic(ox) THEN [self |-> self, panic |-> ox.panic]
    ELSE IF IsPanic(oy) THEN [self |-> [self EXCEPT !.x = ox.val], panic |-> oy.panic]
    ELSE [self |-> [self EXCEPT !.x = ox.val, !.y = oy.val]]

add_assign_typo(self, rhs) ==
    InPlace(self, ScalarAdd(self.x, rhs.x), ScalarAdd(self.y, rhs.x))

add_assign(self, rhs) ==
    InPlace(self, ScalarAdd(self.x, rhs.x), ScalarAdd(self.y, rhs.y))

sub_assign(self, rhs) ==
    InPlace(self, ScalarSub(self.x, rhs.x), ScalarSub(self.y, rhs.y))

mul_assign(self, rhs) ==
    InPlace(self, ScalarMul(self.x, rhs), ScalarMul(self.y, rhs))

div_assign(self, rhs) ==
    InPlace(self, ScalarDiv(self.x, rhs), ScalarDiv(self.y, rhs))

abs_identity(self) == self

abs(self) == Panic("not implemented")

\* the largest k with k * k <= n, for n >= 0
RECURSIVE SqrtFrom(_, _)
SqrtFrom(n, k) == IF (k + 1) * (k + 1) > n THEN k ELSE SqrtFrom(n, k + 1)

\* f64::from(n).sqrt(): the conversion is exact; the root of a negative
\* number is NaN, otherwise its integer part and whether it is exact.
F64Sqrt(n) ==
    IF n < 0 THEN [radicand |-> n, nan |-> TRUE, floor |-> 0, exact |-> FALSE]
    ELSE LET k == SqrtFrom(n, 0)
         IN  [radicand |-> n, nan |-> FALSE, floor |-> k, exact |-> (k * k = n)]

magnitude_in_float(self) == F64Sqrt(self.x * self.x + self.y * self.y)

magnitude(self) ==
    LET xx == ScalarMul(self.x, self.x) IN
    IF IsPanic(xx) THEN xx
    ELSE LET yy == ScalarMul(self.y, self.y) IN
         IF IsPanic(yy) THEN yy
         ELSE LET sum == ScalarAdd(xx.val, yy.val) IN
              IF IsPanic(sum) THEN sum ELSE F64Sqrt(sum.val)

(***************************************************************************)
(* The floating Scalar: T = f64, a finite integer-valued number or NaN.    *)
(***************************************************************************)
F(n) == [nan |-> FALSE, val |-> n]
NaN == [nan |-> TRUE, val |-> 0]

OrdScalars == {F(n) : n \in -OrdMax..OrdMax} \cup {NaN}
OrdVecs == {new(x, y) : x \in OrdScalars, y \in OrdScalars}

\* f64's ==: NaN equals nothing, itself included
ScalarEq(x, y) == ~x.nan /\ ~y.nan /\ x.val = y.val

\* f64::partial_cmp: None when either side is NaN
ScalarPartialCmp(x, y) ==
    IF x.nan \/ y.nan THEN "None"
    ELSE IF x.val < y.val THEN "Less"
    ELSE IF x.val = y.val THEN "Equal"
    ELSE "Greater"

eq_x_only(self, other) == ScalarEq(self.x, other.x)

\* #[derive(PartialEq)]: every field equal
eq(self, other) == ScalarEq(self.x, other.x) /\ ScalarEq(self.y, other.y)

partial_cmp_product(self, other) ==
    LET cx == ScalarPartialCmp(self.x, other.x)
        cy == ScalarPartialCmp(self.y, other.y)
    IN  IF cx = cy THEN cx
        ELSE IF cx = "Equal" THEN cy
        ELSE IF cy = "Equal" THEN cx
        ELSE "None"

partial_cmp_y_first(self, other) ==
    LET cy == ScalarPartialCmp(self.y, other.y)
    IN  IF cy = "Equal" THEN ScalarPartialCmp(self.x, other.x) ELSE cy

\* #[derive(PartialOrd)]: the fields are compared in declaration order and
\* the first one that is not Some(Equal) decides.
partial_cmp(self, other) ==
    LET cx == ScalarPartialCmp(self.x, other.x)
    IN  IF cx = "Equal" THEN ScalarPartialCmp(self.y, other.y) ELSE cx

\* PartialOrd's provided methods, each a match on partial_cmp
lt(self, other) == partial_cmp(self, other) = "Less"
le(self, other) == partial_cmp(self, other) \in {"Less", "Equal"}
gt(self, other) == partial_cmp(self, other) = "Greater"
ge(self, other) == partial_cmp(self, other) \in {"Greater", "Equal"}

Compare(a, b) ==
    [eq |-> eq(a, b), partial_cmp |-> partial_cmp(a, b),
     lt |-> lt(a, b), le |-> le(a, b), gt |-> gt(a, b), ge |-> ge(a, b)]

ModScalars == {F(n) : n \in -ModMax..ModMax} \cup {NaN}

sane_mod_rem(a, b) ==
    IF a.nan \/ b.nan \/ b.val = 0 THEN NaN
    ELSE F(a.val - TruncQuot(a.val, b.val) * b.val)

\* a - (a/b).floor() * b.  On integer-valued arguments of this size the
\* quotient's floor, the product and the difference are exact.  A zero
\* divisor gives a/b infinite or NaN, and infinity * 0 is NaN; NaN spreads.
sane_mod(a, b) ==
    IF a.nan \/ b.nan \/ b.val = 0 THEN NaN
    ELSE F(a.val - FloorQuot(a.val, b.val) * b.val)

(***************************************************************************)
(* The caller.                                                             *)
(***************************************************************************)
Idle == [op |-> "idle"]

Init ==
    /\ overflow_checks \in BOOLEAN
    /\ call = Idle
    /\ result = Idle

Call(c, r) ==
    /\ call' = c
    /\ result' = r
    /\ UNCHANGED overflow_checks

\* new needs no capability of T: it is called with integers and with floats
DoNew ==
    /\ call = Idle
    /\ \/ \E x \in Scalars, y \in Scalars :
            Call([op |-> "new", x |-> x, y |-> y], new(x, y))
       \/ \E x \in OrdScalars, y \in OrdScalars :
            Call([op |-> "new", x |-> x, y |-> y], new(x, y))

DoAdd ==
    /\ call = Idle
    /\ \E a \in Vecs, b \in Vecs : Call([op |-> "add", a |-> a, b |-> b], add(a, b))

DoAddAssign ==
    /\ call = Idle
    /\ \E a \in Vecs, b \in Vecs :
        Call([op |-> "add_assign", a |-> a, b |-> b], add_assign(a, b))

DoSub ==
    /\ call = Idle
    /\ \E a \in Vecs, b \in Vecs : Call([op |-> "sub", a |-> a, b |-> b], sub(a, b))

DoSubAssign ==
    /\ call = Idle
    /\ \E a \in Vecs, b \in Vecs :
        Call([op |-> "sub_assign", a |-> a, b |-> b], sub_assign(a, b))

DoMul ==
    /\ call = Idle
    /\ \E a \in Vecs, s \in Scalars : Call([op |-> "mul", a |-> a, s |-> s], mul(a, s))

DoMulAssign ==
    /\ call = Idle
    /\ \E a \in Vecs, s \in Scalars :
        Call([op |-> "mul_assign", a |-> a, s |-> s], mul_assign(a, s))

DoDiv ==
    /\ call = Idle
    /\ \E a \in Vecs, s \in Scalars : Call([op |-> "div", a |-> a, s |-> s], div(a, s))

DoDivAssign ==
    /\ call = Idle
    /\ \E a \in Vecs, s \in Scalars :
        Call([op |-> "div_assign", a |-> a, s |-> s], div_assign(a, s))

DoNeg ==
    /\ call = Idle
    /\ \E a \in Vecs : Call([op |-> "neg", a |-> a], neg(a))

\* abs needs no capability of T: it is called on integer and floating vectors
DoAbs ==
    /\ call = Idle
    /\ \/ \E a \in Vecs : Call([op |-> "abs", a |-> a], abs(a))
       \/ \E a \in OrdVecs : Call([op |-> "abs", a |-> a], abs(a))

DoMagnitude ==
    /\ call = Idle
    /\ \E a \in Vecs : Call([op |-> "magnitude", a |-> a], magnitude(a))

\* a + (-a)
AddNeg(a) == LET n == neg(a) IN IF IsPanic(n) THEN n ELSE add(a, n)

DoAddNeg ==
    /\ call = Idle
    /\ \E a \in Vecs : Call([op |-> "add_neg", a |-> a], AddNeg(a))

\* (a + b) * s
AddThenMul(a, b, s) == LET t == add(a, b) IN IF IsPanic(t) THEN t ELSE mul(t, s)

\* a * s + b * s
MulThenAdd(a, b, s) ==
    LET l == mul(a, s) IN
    IF IsPanic(l) THEN l
    ELSE LET r == mul(b, s) IN IF IsPanic(r) THEN r ELSE add(l, r)

DoAddThenMul ==
    /\ call = Idle
    /\ \E a \in Vecs, b \in Vecs, s \in Scalars :
        Call([op |-> "add_then_mul", a |-> a, b |-> b, s |-> s], AddThenMul(a, b, s))

DoCompare ==
    /\ call = Idle
    /\ \E a \in OrdVecs, b \in OrdVecs :
        Call([op |-> "compare", a |-> a, b |-> b], Compare(a, b))

DoSaneMod ==
    /\ call = Idle
    /\ \E a \in ModScalars, b \in ModScalars :
        Call([op |-> "sane_mod", a |-> a, b |-> b], sane_mod(a, b))

Return ==
    /\ call # Idle
    /\ call' = Idle
    /\ result' = Idle
    /\ UNCHANGED overflow_checks

Next ==
    \/ DoNew
    \/ DoAdd
    \/ DoAddAssign
    \/ DoSub
    \/ DoSubAssign
    \/ DoMul
    \/ DoMulAssign
    \/ DoDiv
    \/ DoDivAssign
    \/ DoNeg
    \/ DoAbs
    \/ DoMagnitude
    \/ DoAddNeg
    \/ DoAddThenMul
    \/ DoCompare
    \/ DoSaneMod
    \/ Return

Spec == Init /\ [][Next]_vars

(***************************************************************************)
(* Properties.                                                             *)
(***************************************************************************)
\* the outcome ip of an in-place operator against the outcome v of the
\* value-returning one: the same panic, or no panic and the same vector
InPlaceAgrees(ip, v) ==
    IF IsPanic(v) THEN IsPanic(ip) /\ ip.panic = v.panic
    ELSE ~IsPanic(ip) /\ ip.self = v

\* C1: after t = a; t op= rhs, t equals a op rhs for +=, -=, *= and /=, and
\* the in-place form panics exactly when the value-returning form panics.
C1_InPlaceMatchesValue ==
    /\ call.op = "add_assign" => InPlaceAgrees(result, add(call.a, call.b))
    /\ call.op = "sub_assign" => InPlaceAgrees(result, sub(call.a, call.b))
    /\ call.op = "mul_assign" => InPlaceAgrees(result, mul(call.a, call.s))
    /\ call.op = "div_assign" => InPlaceAgrees(result, div(call.a, call.s))

\* a += b has run, changed t and not panicked
C1_Witness ==
    /\ call.op = "add_assign"
    /\ call.b.x # 0 /\ call.b.y # 0 /\ call.b.x # call.b.y
    /\ ~IsPanic(result)
    /\ result.self # call.a

\* q is x / s rounded toward zero: q * s is no further from zero than x and
\* less than |s| away from it
IsTruncated(q, x, s) == Abs(q * s) <= Abs(x) /\ Abs(x - q * s) < Abs(s)

DivTruncates ==
    /\ ~IsPanic(result)
    /\ IsTruncated(result.x, call.a.x, call.s)
    /\ IsTruncated(result.y, call.a.y, call.s)

\* C2 as stated: for every v and every nonzero s, v / s is the vector of the
\* two quotients truncated toward zero.
C2_DivTruncatesEveryNonzero ==
    (call.op = "div" /\ call.s # 0) => DivTruncates

\* C2 amended: for every v and every nonzero s, v / s is the vector of the two
\* quotients truncated toward zero, except that when s = -1 and a component of
\* v is the minimum value the division panics (the quotient is not
\* representable).
C2_DivTruncatesUnlessOverflow ==
    (call.op = "div" /\ call.s # 0) =>
        IF call.s = -1 /\ MinVal \in {call.a.x, call.a.y}
        THEN result = Panic("attempt to divide with overflow")
        ELSE DivTruncates

\* (-3,-3) / 2 is (-1,-1), not the floored (-2,-2)
C2_Witness ==
    /\ call.op = "div"
    /\ call.a = new(-3, -3)
    /\ call.s = 2
    /\ result = new(-1, -1)

\* C3 as stated: a + (-a) and a - a are the zero vector for every a, the
\* minimum value included.
C3_InverseIsZeroEverywhere ==
    /\ call.op = "add_neg" => result = Zero
    /\ (call.op = "sub" /\ call.a = call.b) => result = Zero

\* C3 amended: a - a is the zero vector for every a.  a + (-a) is the zero
\* vector for every a when overflow wraps (-MIN wraps to MIN and MIN + MIN
\* wraps to 0) and, when overflow is checked, for every a with no component
\* equal to the minimum value; there the negation panics.
C3_InverseIsZeroUnlessNegPanics ==
    /\ call.op = "add_neg" =>
        IF overflow_checks /\ MinVal \in {call.a.x, call.a.y}
        THEN result = Panic("attempt to negate with overflow")
        ELSE result = Zero
    /\ (call.op = "sub" /\ call.a = call.b) => result = Zero

\* a + (-a) with a component at the minimum value, wrapping to zero
C3_Witness ==
    /\ call.op = "add_neg"
    /\ ~overflow_checks
    /\ call.a.x = MinVal
    /\ call.a.y # 0
    /\ result = Zero

\* C4 as stated: (a + b) * s and a * s + b * s have the same outcome, the same
\* vector or both a failure, for every a, b and s.
C4_DistributesEverywhere ==
    call.op = "add_then_mul" =>
        LET rhs == MulThenAdd(call.a, call.b, call.s)
        IN  IF IsPanic(result) \/ IsPanic(rhs)
            THEN IsPanic(result) /\ IsPanic(rhs)
            ELSE result = rhs

\* C4 amended: (a + b) * s and a * s + b * s are the same vector whenever both
\* succeed; when overflow wraps both always succeed, when it is checked one
\* side may fail while the other succeeds.
C4_DistributesWhenBothSucceed ==
    call.op = "add_then_mul" =>
        LET rhs == MulThenAdd(call.a, call.b, call.s)
        IN  /\ (~IsPanic(result) /\ ~IsPanic(rhs)) => result = rhs
            /\ ~overflow_checks => (~IsPanic(result) /\ ~IsPanic(rhs))

\* the sum a.x + b.x leaves the range and both sides still agree
C4_Witness ==
    /\ call.op = "add_then_mul"
    /\ ~InRange(call.a.x + call.b.x)
    /\ call.s > 1
    /\ ~IsPanic(result)
    /\ result = MulThenAdd(call.a, call.b, call.s)
    /\ result # Zero

Incomparable ==
    /\ result.partial_cmp = "None"
    /\ ~result.lt /\ ~result.le /\ ~result.gt /\ ~result.ge

\* C5 as stated: a and b are incomparable whenever a.x against b.x or a.y
\* against b.y is incomparable, whatever the other component.
C5_IncomparableIfAnyComponentIs ==
    (/\ call.op = "compare"
     /\ \/ ScalarPartialCmp(call.a.x, call.b.x) = "None"
        \/ ScalarPartialCmp(call.a.y, call.b.y) = "None") => Incomparable

\* C5 amended: a and b are incomparable exactly when a.x against b.x is
\* incomparable, or a.x equals b.x and a.y against b.y is incomparable; when
\* a.x and b.x are ordered and differ, their order is the vectors' order even
\* if a y component is NaN.
C5_IncomparableIfDecidingComponentIs ==
    call.op = "compare" =>
        LET cx == ScalarPartialCmp(call.a.x, call.b.x)
            cy == ScalarPartialCmp(call.a.y, call.b.y)
        IN  /\ (cx = "None" \/ (cx = "Equal" /\ cy = "None")) <=> Incomparable
            /\ cx \in {"Less", "Greater"} => result.partial_cmp = cx

\* a NaN y component, and the vectors are ordered all the same
C5_Witness ==
    /\ call.op = "compare"
    /\ call.a.y.nan
    /\ ~call.a.x.nan /\ ~call.b.x.nan /\ ~call.b.y.nan
    /\ result.lt

ComponentsEqual ==
    ScalarEq(call.a.x, call.b.x) /\ ScalarEq(call.a.y, call.b.y)

\* C6 as stated: a == b iff both components are equal, and a < b iff
\* a.x < b.x and a.y < b.y.
C6_OrderedIffBothComponents ==
    call.op = "compare" =>
        /\ result.eq <=> ComponentsEqual
        /\ result.lt <=> (/\ ScalarPartialCmp(call.a.x, call.b.x) = "Less"
                          /\ ScalarPartialCmp(call.a.y, call.b.y) = "Less")

\* C6 amended: a == b iff both components are equal, and a < b iff a.x < b.x,
\* or a.x == b.x and a.y < b.y (the x component decides first), so (1,2) is
\* ordered before (2,0).
C6_OrderedLexicographically ==
    call.op = "compare" =>
        /\ result.eq <=> ComponentsEqual
        /\ result.lt <=> \/ ScalarPartialCmp(call.a.x, call.b.x) = "Less"
                         \/ /\ ScalarPartialCmp(call.a.x, call.b.x) = "Equal"
                            /\ ScalarPartialCmp(call.a.y, call.b.y) = "Less"

\* (1,2) < (2,0)
C6_Witness ==
    /\ call.op = "compare"
    /\ call.a = new(F(1), F(2))
    /\ call.b = new(F(2), F(0))
    /\ result.lt
    /\ ~result.eq

Finite(a, b) == ~a.nan /\ ~b.nan

SquaredNorm == call.a.x * call.a.x + call.a.y * call.a.y

\* C10: the value under magnitude's root is x*x + y*y computed in the Scalar:
\* exactly x*x + y*y when that fits the Scalar, and otherwise the Scalar's
\* overflow happens before the conversion to f64 (a panic when overflow is
\* checked, the wrapped value when it is not).
C10_SquaredNormInScalar ==
    call.op = "magnitude" =>
        IF InRange(SquaredNorm)
        THEN ~IsPanic(result) /\ result.radicand = SquaredNorm
        ELSE IF overflow_checks
        THEN IsPanic(result)
        ELSE /\ ~IsPanic(result)
             /\ result.radicand = Wrap(SquaredNorm)
             /\ result.radicand # SquaredNorm

\* a squared norm beyond the Scalar's range, wrapped before the root
C10_Witness ==
    /\ call.op = "magnitude"
    /\ ~InRange(SquaredNorm)
    /\ ~overflow_checks
    /\ ~IsPanic(result)
    /\ result.radicand # SquaredNorm
====
